---- MODULE Spec2Model ----
(***************************************************************************)
(* Verification model of io_scene_fbx/export_fbx_bin.py: the UID registry, *)
(* the typed property encoder with template deduplication, the scene data  *)
(* collector and the document emitters.                                    *)
(*                                                                         *)
(* Six specifications share the module:                                    *)
(*   SpecUID    - arbitrary sequences of get_fbxuid_from_key calls;        *)
(*   SpecProps  - one call of elem_props_template_set / elem_props_set on  *)
(*                arbitrary arguments;                                     *)
(*   Spec       - one run of save_single over an arbitrary small scene;    *)
(*   SpecData   - fbx_data_from_scene alone, under several type filters;   *)
(*   SpecMesh   - the geometry part of fbx_data_mesh_elements on a mesh;   *)
(*   SpecHeader - the creation time written by fbx_header_elements.        *)
(*                                                                         *)
(* Strings that are hashed (registry keys) are sequences of character      *)
(* codes, so that concatenation and hashing work on their content.         *)
(* Integers are scaled: UID_CEILING stands for 2**63.                      *)
(***************************************************************************)
EXTENDS Integers, Sequences, FiniteSets, TLC

VARIABLES
    hashseed,        \* the interpreter's string-hash seed, fixed per process
    keys_to_uids,    \* _keys_to_uids
    uids_to_keys,    \* _uids_to_keys
    call,            \* the last get_fbxuid_from_key call and what it returned
    first_uid,       \* history: the UID the first call for each key returned
    p_in,            \* arguments of the writer call under test (SpecProps, SpecMesh, SpecHeader)
    p_out,           \* its effect on the children of the element it writes to
    scene,           \* the scene handed to save_single
    pc,              \* position of save_single
    scene_data,      \* the FBXData built by fbx_data_from_scene
    root             \* the root element tree, section by section

vars == <<hashseed, keys_to_uids, uids_to_keys, call, first_uid,
          p_in, p_out, scene, pc, scene_data, root>>

(***************************************************************************)
(* Bounds.                                                                 *)
(***************************************************************************)
\* Scaled stand-in for 2**63, the exclusive upper limit of legal UIDs.
UID_CEILING == 6
\* Hash seeds 0..MaxSeed are explored.
MaxSeed == 1

\* 2**62, the value at which the probe direction flips.
UID_MIDPOINT == UID_CEILING \div 2

EmptyMap == [x \in {} |-> x]

(***************************************************************************)
(* Keys.  A key is an int or a str; both shapes share one record type.     *)
(***************************************************************************)
IntKey(i) == [kind |-> "int", i |-> i, s |-> <<>>]
StrKey(s) == [kind |-> "str", i |-> 0, s |-> s]

\* hash() of a str: deterministic within a process, seed-dependent, ranging
\* over the signed 64-bit integers (scaled: -UID_CEILING .. UID_CEILING-1).
RECURSIVE StrMix(_, _)
StrMix(h, s) ==
    IF s = <<>> THEN h
    ELSE StrMix((h * 5 + Head(s)) % (2 * UID_CEILING), Tail(s))

StrHash(seed, s) == StrMix(seed, s) - UID_CEILING

\* hash() of an int of small magnitude: the value itself, except hash(-1) = -2.
IntHash(i) == IF i = -1 THEN -2 ELSE i

hash(seed, key) == IF key.kind = "int" THEN IntHash(key.i) ELSE StrHash(seed, key.s)

(***************************************************************************)
(* _key_to_uid                                                             *)
(***************************************************************************)
\* Lines 125-133: the candidate UID of a key.
Candidate(seed, key) ==
    IF key.kind = "int" /\ 0 <= key.i /\ key.i < UID_CEILING
    THEN key.i
    ELSE LET h == hash(seed, key)
             a == IF h < 0 THEN -h ELSE h
         IN  IF a >= UID_CEILING THEN a \div 2 ELSE a

Returned(uid) == [raised |-> FALSE, uid |-> uid]
Raised == [raised |-> TRUE, uid |-> -1]

\* Lines 137-141: the probing loop.  The guard of the raise is the chained
\* comparison 0 > uid >= 2**63, i.e. (0 > uid) and (uid >= 2**63).
RECURSIVE Probe(_, _, _)
Probe(uids, uid, inc) ==
    IF uid \in uids
    THEN LET n == uid + inc
         IN  IF 0 > n /\ n >= UID_CEILING
             THEN Raised
             ELSE Probe(uids, n, inc)
    ELSE Returned(uid)

\* A variant that takes the candidate for taken.
KeyToUidSkipsCandidate(seed, uids, key) ==
    LET uid == Candidate(seed, key)
    IN  Probe(uids \cup {uid}, uid, IF uid < UID_MIDPOINT THEN 1 ELSE -1)

\* A variant that always probes upward.
KeyToUidProbesUpward(seed, uids, key) ==
    LET uid == Candidate(seed, key)
    IN  IF uid \in uids THEN Probe(uids, uid, 1) ELSE Returned(uid)

\* A variant that returns the candidate without probing.
KeyToUidNoProbe(seed, uids, key) == Returned(Candidate(seed, key))

_key_to_uid(seed, uids, key) ==
    LET uid == Candidate(seed, key)
    IN  IF uid \in uids
        THEN Probe(uids, uid, IF uid < UID_MIDPOINT THEN 1 ELSE -1)
        ELSE Returned(uid)

(***************************************************************************)
(* get_fbxuid_from_key, as a function of the registry.                     *)
(***************************************************************************)
Registry(k2u, u2k) == [k2u |-> k2u, u2k |-> u2k]

\* A variant that allocates again for a key it already holds.
GetFbxUidAlwaysAllocates(seed, reg, key) ==
    LET r == _key_to_uid(seed, DOMAIN reg.u2k, key)
    IN  IF r.raised
        THEN [reg |-> reg, raised |-> TRUE, uid |-> -1]
        ELSE [reg |-> Registry([k \in DOMAIN reg.k2u \cup {key} |->
                                   IF k = key THEN r.uid ELSE reg.k2u[k]],
                               (r.uid :> key) @@ reg.u2k),
              raised |-> FALSE, uid |-> r.uid]

\* A variant that does not record the key under its UID.
GetFbxUidForgetsReverse(seed, reg, key) ==
    IF key \in DOMAIN reg.k2u
    THEN [reg |-> reg, raised |-> FALSE, uid |-> reg.k2u[key]]
    ELSE LET r == _key_to_uid(seed, DOMAIN reg.u2k, key)
         IN  IF r.raised
             THEN [reg |-> reg, raised |-> TRUE, uid |-> -1]
             ELSE [reg |-> Registry((key :> r.uid) @@ reg.k2u, reg.u2k),
                   raised |-> FALSE, uid |-> r.uid]

get_fbxuid_from_key(seed, reg, key) ==
    IF key \in DOMAIN reg.k2u
    THEN [reg |-> reg, raised |-> FALSE, uid |-> reg.k2u[key]]
    ELSE LET r == _key_to_uid(seed, DOMAIN reg.u2k, key)
         IN  IF r.raised
             THEN [reg |-> reg, raised |-> TRUE, uid |-> -1]
             ELSE [reg |-> Registry((key :> r.uid) @@ reg.k2u,
                                    (r.uid :> key) @@ reg.u2k),
                   raised |-> FALSE, uid |-> r.uid]

\* Lines 158-163: the key that generated a UID, or None.
NotFound == [found |-> FALSE, key |-> IntKey(0)]
get_key_from_fbxuid(reg, uid) ==
    IF uid \in DOMAIN reg.u2k THEN [found |-> TRUE, key |-> reg.u2k[uid]] ELSE NotFound

NoCall == [valid |-> FALSE, key |-> IntKey(0), uid |-> 0, raised |-> FALSE,
           known |-> FALSE]

\* What a caller observes of one call.
CallRecord(reg, key, r) ==
    [valid |-> TRUE, key |-> key, uid |-> r.uid, raised |-> r.raised,
     known |-> key \in DOMAIN reg.k2u]

(***************************************************************************)
(* SpecUID: any sequence of get_fbxuid_from_key calls on an empty registry.*)
(***************************************************************************)
RegKeys ==
    {IntKey(i) : i \in (-1)..(UID_CEILING - 1)} \cup
    {StrKey(<<7>>)}

IdleProps == p_in = <<>> /\ p_out = <<>>
IdleExport == scene = <<>> /\ pc = "idle" /\ scene_data = <<>> /\ root = <<>>

InitUID ==
    /\ hashseed \in 0..MaxSeed
    /\ keys_to_uids = EmptyMap
    /\ uids_to_keys = EmptyMap
    /\ call = NoCall
    /\ first_uid = EmptyMap
    /\ IdleProps
    /\ IdleExport

Assign ==
    \E key \in RegKeys :
        LET reg == Registry(keys_to_uids, uids_to_keys)
            r == get_fbxuid_from_key(hashseed, reg, key)
        IN  /\ keys_to_uids' = r.reg.k2u
            /\ uids_to_keys' = r.reg.u2k
            /\ call' = CallRecord(reg, key, r)
            /\ first_uid' = IF key \in DOMAIN first_uid \/ r.raised
                            THEN first_uid
                            ELSE (key :> r.uid) @@ first_uid
            /\ UNCHANGED <<hashseed, p_in, p_out, scene, pc, scene_data, root>>

NextUID == Assign

SpecUID == InitUID /\ [][NextUID]_vars

(***************************************************************************)
(* Claims about the UID registry (checked under SpecUID).                  *)
(***************************************************************************)
Assigned == DOMAIN keys_to_uids

\* Every slot from the candidate to the end of the legal range, in the
\* probe direction, is taken: the probe leaves [0, UID_CEILING).
ProbeLeavesRange(seed, uids, key) ==
    LET c == Candidate(seed, key)
    IN  /\ c \in uids
        /\ IF c < UID_MIDPOINT
           THEN \A u \in c..(UID_CEILING - 1) : u \in uids
           ELSE \A u \in 0..c : u \in uids

\* C1: any two distinct assigned keys hold different UIDs, also when their
\* candidate UIDs collide.
C1_UidsInjective ==
    \A k1 \in Assigned : \A k2 \in Assigned :
        k1 # k2 => keys_to_uids[k1] # keys_to_uids[k2]

C1_Witness_CollidingKeysAssigned ==
    \E k1 \in Assigned : \E k2 \in Assigned :
        /\ k1 # k2
        /\ Candidate(hashseed, k1) = Candidate(hashseed, k2)

\* C2: a call on an already assigned key returns the UID of the first call
\* for that key and leaves both tables unchanged.
C2_ReassignReturnsFirst ==
    [][(call'.valid /\ call'.key \in DOMAIN keys_to_uids) =>
          /\ ~call'.raised
          /\ call'.uid = first_uid[call'.key]
          /\ UNCHANGED <<keys_to_uids, uids_to_keys>>]_vars

C2_Witness_ReassignAfterOthers ==
    /\ call.valid /\ call.known
    /\ \E k \in Assigned :
          /\ k # call.key
          /\ Candidate(hashseed, k) = Candidate(hashseed, call.key)
    /\ Cardinality(Assigned) >= 3

\* C3: every UID returned lies in 0 .. UID_CEILING-1.
C3_UidInRange ==
    (call.valid /\ ~call.raised) => (0 <= call.uid /\ call.uid < UID_CEILING)

\* C4: a call whose probe leaves the legal range fails, and the tables get
\* no entry for the key.
C4_ExhaustionRaises ==
    [][(/\ call'.valid
        /\ call'.key \notin DOMAIN keys_to_uids
        /\ ProbeLeavesRange(hashseed, DOMAIN uids_to_keys, call'.key)) =>
          /\ call'.raised
          /\ call'.key \notin DOMAIN keys_to_uids'
          /\ UNCHANGED <<keys_to_uids, uids_to_keys>>]_vars

(***************************************************************************)
(* Element tree and property values.                                       *)
(*                                                                         *)
(* A Python value handed to a setter is one of: a number (bools are        *)
(* numbers: True == 1), None, a tuple of numbers, a str (iterable, its     *)
(* items are one-character strs) or a byte string (names and type tags).   *)
(***************************************************************************)
Num(n) == [t |-> "num", n |-> n, items |-> <<>>, b |-> ""]
NoneVal == [t |-> "none", n |-> 0, items |-> <<>>, b |-> ""]
Tup(items) == [t |-> "tuple", n |-> 0, items |-> items, b |-> ""]
Str(items) == [t |-> "str", n |-> 0, items |-> items, b |-> ""]
Bytes(b) == [t |-> "bytes", n |-> 0, items |-> <<>>, b |-> b]

\* iter(value) succeeds.
IsIterable(v) == v.t \in {"tuple", "str"}
\* The i-th item iteration yields.
Item(v, i) == IF v.t = "tuple" THEN Num(v.items[i]) ELSE Str(<<v.items[i]>>)
\* tuple(value), for an iterable value.
PyTuple(v) == [i \in 1..Len(v.items) |-> Item(v, i)]

\* One property of an element: the FBXElem add_* method used and its argument.
Prop(setter, v) == [setter |-> setter, val |-> v]

\* encode_bin.FBXElem(name) with its props and child elems.
FBXElem(name, props, elems) == [name |-> name, props |-> props, elems |-> elems]

Done(elems) == [raised |-> FALSE, elems |-> elems]
Failed(elems) == [raised |-> TRUE, elems |-> elems]

FBX_PROPERTIES_DEFINITIONS ==
    [p_bool |-> <<"bool", "", "", "add_int32">>,
     p_integer |-> <<"int", "Integer", "", "add_int32">>,
     p_enum |-> <<"enum", "", "", "add_int32">>,
     p_number |-> <<"double", "Number", "", "add_float64">>,
     p_visibility |-> <<"Visibility", "", "A+", "add_float64">>,
     p_fov |-> <<"FieldOfView", "", "A+", "add_float64">>,
     p_fov_x |-> <<"FieldOfViewX", "", "A+", "add_float64">>,
     p_fov_y |-> <<"FieldOfViewY", "", "A+", "add_float64">>,
     p_vector_3d |-> <<"Vector3D", "Vector", "", "add_float64", "add_float64", "add_float64">>,
     p_lcl_translation |-> <<"Lcl Translation", "", "A+", "add_float64", "add_float64", "add_float64">>,
     p_lcl_rotation |-> <<"Lcl Rotation", "", "A+", "add_float64", "add_float64", "add_float64">>,
     p_lcl_scaling |-> <<"Lcl Scaling", "", "A+", "add_float64", "add_float64", "add_float64">>,
     p_color_rgb |-> <<"ColorRGB", "Color", "", "add_float64", "add_float64", "add_float64">>,
     p_string |-> <<"KString", "", "", "add_string_unicode">>,
     p_string_url |-> <<"KString", "XRefUrl", "", "add_string_unicode">>,
     p_timestamp |-> <<"KTime", "Time", "", "add_int64">>,
     p_object |-> <<"object", "", "">>]

PropertyKinds == DOMAIN FBX_PROPERTIES_DEFINITIONS

PyMin(a, b) == IF a < b THEN a ELSE b

\* _elem_props_set on the children `elems` of the container.  The "P"
\* element is appended before any value is written, so a failure while
\* writing values leaves a short "P" element behind.
_elem_props_set(elems, ptype, name, value) ==
    LET head == <<Prop("add_string", Bytes(name))>> \o
                [i \in 1..3 |-> Prop("add_string", Bytes(ptype[i]))]
    IN  IF Len(ptype) = 4
        THEN Done(Append(elems, FBXElem("P", Append(head, Prop(ptype[4], value)), <<>>)))
        ELSE IF Len(ptype) > 4
        THEN IF ~IsIterable(value)
             THEN Failed(Append(elems, FBXElem("P", head, <<>>)))
             ELSE LET n == PyMin(Len(ptype) - 3, Len(value.items))
                  IN  Done(Append(elems, FBXElem("P",
                          head \o [i \in 1..n |-> Prop(ptype[3 + i], Item(value, i))],
                          <<>>)))
        ELSE Done(Append(elems, FBXElem("P", head, <<>>)))

elem_props_set(elems, ptype_name, name, value) ==
    _elem_props_set(elems, FBX_PROPERTIES_DEFINITIONS[ptype_name], name, value)

FBXTemplate(type_name, prop_type_name, properties, nbr_users) ==
    [type_name |-> type_name, prop_type_name |-> prop_type_name,
     properties |-> properties, nbr_users |-> nbr_users]

\* One entry of a template's default table: (value, kind).
Default(val, ptype) == [val |-> val, ptype |-> ptype]

elem_props_template_set(template, elems, ptype_name, name, value) ==
    LET ptype == FBX_PROPERTIES_DEFINITIONS[ptype_name]
    IN  IF name \in DOMAIN template.properties
        THEN LET tmpl_val == template.properties[name].val
                 tmpl_ptype == template.properties[name].ptype
             IN  IF Len(ptype) = 4
                 THEN IF tmpl_val = value /\ tmpl_ptype = ptype_name
                      THEN Done(elems)
                      ELSE _elem_props_set(elems, ptype, name, value)
                 ELSE IF Len(ptype) > 4
                 THEN IF ~IsIterable(tmpl_val) \/ ~IsIterable(value)
                      THEN Failed(elems)       \* tuple() raises TypeError
                      ELSE IF PyTuple(tmpl_val) = PyTuple(value) /\ tmpl_ptype = ptype_name
                           THEN Done(elems)
                           ELSE _elem_props_set(elems, ptype, name, value)
                 ELSE _elem_props_set(elems, ptype, name, value)
        ELSE _elem_props_set(elems, ptype, name, value)

(***************************************************************************)
(* SpecProps: one call of each property setter on the same arguments.      *)
(***************************************************************************)
\* Default tables: none, and excerpts of the Model and Material tables.
TemplatePool ==
    {FBXTemplate("Camera", "KFbxCamera", EmptyMap, 0),
     FBXTemplate("Model", "KFbxNode",
         [LookAtProperty |-> Default(NoneVal, "p_object"),
          Show |-> Default(Num(1), "p_bool"),
          GeometricTranslation |-> Default(Tup(<<0, 0, 0>>), "p_vector_3d"),
          Visibility |-> Default(Num(1), "p_visibility")], 0),
     FBXTemplate("Material", "KFbxSurfacePhong",
         [ShadingModel |-> Default(Str(<<1, 2>>), "p_string"),
          BumpFactor |-> Default(Num(1), "p_number"),
          Bump |-> Default(Tup(<<0, 0, 0>>), "p_vector_3d")], 0)}

PropNames == {"LookAtProperty", "Show", "GeometricTranslation", "Visibility",
              "ShadingModel", "Bump", "OuterAngle"}

PropValues == {Num(0), Num(1), NoneVal, Tup(<<0, 0, 0>>), Tup(<<1, 0, 0>>),
               Tup(<<0, 0>>), Str(<<1, 2>>), Str(<<>>)}

\* Children already in the container before the call.
PriorElems == {<<>>, <<FBXElem("P", <<Prop("add_string", Bytes("UpAxis"))>>, <<>>)>>}

NotCalled == [called |-> FALSE, raised |-> FALSE, elems |-> <<>>]
Called(r) == [called |-> TRUE, raised |-> r.raised, elems |-> r.elems]

IdleUID ==
    /\ hashseed = 0
    /\ keys_to_uids = EmptyMap
    /\ uids_to_keys = EmptyMap
    /\ call = NoCall
    /\ first_uid = EmptyMap

InitProps ==
    /\ IdleUID
    /\ IdleExport
    /\ p_in \in [template : TemplatePool, elems : PriorElems,
                 ptype_name : PropertyKinds, name : PropNames, value : PropValues]
    /\ p_out = [tmpl |-> NotCalled, plain |-> NotCalled]

TemplateSet ==
    /\ ~p_out.tmpl.called
    /\ p_out' = [p_out EXCEPT !.tmpl =
          Called(elem_props_template_set(p_in.template, p_in.elems,
                                         p_in.ptype_name, p_in.name, p_in.value))]
    /\ UNCHANGED <<hashseed, keys_to_uids, uids_to_keys, call, first_uid,
                   p_in, scene, pc, scene_data, root>>

PlainSet ==
    /\ ~p_out.plain.called
    /\ p_out' = [p_out EXCEPT !.plain =
          Called(elem_props_set(p_in.elems, p_in.ptype_name, p_in.name, p_in.value))]
    /\ UNCHANGED <<hashseed, keys_to_uids, uids_to_keys, call, first_uid,
                   p_in, scene, pc, scene_data, root>>

NextProps == TemplateSet \/ PlainSet

SpecProps == InitProps /\ [][NextProps]_vars

(***************************************************************************)
(* Claims about the property setters (checked under SpecProps).            *)
(***************************************************************************)
Arity(ptype_name) == Len(FBX_PROPERTIES_DEFINITIONS[ptype_name]) - 3

\* The value has the shape the kind expects: nothing for the value-less
\* kind, one scalar or str for a single-value kind, as many numbers as
\* setters for a multi-value kind.
WellFormed(ptype_name, value) ==
    IF Arity(ptype_name) = 0 THEN value = NoneVal
    ELSE IF Arity(ptype_name) = 1 THEN value.t \in {"num", "str"}
    ELSE value.t = "tuple" /\ Len(value.items) = Arity(ptype_name)

InTemplate == p_in.name \in DOMAIN p_in.template.properties

\* The call names an entry of the template with the entry's kind and a value
\* equal to the entry's default (element-wise for multi-value kinds).
SameAsDefault ==
    /\ InTemplate
    /\ p_in.template.properties[p_in.name].ptype = p_in.ptype_name
    /\ p_in.template.properties[p_in.name].val = p_in.value

\* C5: for every kind, a call that repeats the template default appends
\* nothing to the container.
C5_DefaultIsNoOp ==
    (p_out.tmpl.called /\ SameAsDefault) =>
        (~p_out.tmpl.raised /\ p_out.tmpl.elems = p_in.elems)

\* C6: a call whose value or kind differs from the template entry, or whose
\* name the template does not hold, appends exactly one "P" element, the
\* same one elem_props_set appends (stated for well-formed values).
C6_DifferentIsPlainSet ==
    (/\ p_out.tmpl.called /\ p_out.plain.called
     /\ WellFormed(p_in.ptype_name, p_in.value)
     /\ ~SameAsDefault) =>
        /\ ~p_out.tmpl.raised
        /\ Len(p_out.tmpl.elems) = Len(p_in.elems) + 1
        /\ SubSeq(p_out.tmpl.elems, 1, Len(p_in.elems)) = p_in.elems
        /\ p_out.tmpl.elems[Len(p_out.tmpl.elems)].name = "P"
        /\ p_out.tmpl.elems = p_out.plain.elems

(***************************************************************************)
(* Scenes.                                                                 *)
(*                                                                         *)
(* scene.objects is a sequence of objects; an object has a name, a type, a *)
(* parent (index of another object, 0 for None), the name of its data      *)
(* block (<<>> when the type has none of interest) and material slots.     *)
(* Data blocks of one type are identified by their name.                   *)
(***************************************************************************)
\* Scenes of 0..MaxObjs objects are explored.
MaxObjs == 2
\* Another export begins only while the registry holds fewer keys than this.
MaxRegistry == 4

\* Pieces of key strings, as character codes.
S_B == <<1>>                    \* "B"
S_Object == <<2>>               \* rna_type.name of objects
S_Camera == <<3>>               \* ... of camera data
S_Mesh == <<4>>                 \* ... of mesh data
S_Lamp == <<5>>                 \* ... of lamp data
S_World == <<6>>                \* ... of worlds
S_Sep == <<7>>                  \* "::"
S_switcher == <<8>>             \* "_switcher"
S_object == <<9>>               \* "_object"
S_FBX_Document == <<10>>        \* "__FBX_Document__"
S_a == <<11>>                   \* "a"

ObjectName(i) == <<11 + i>>

\* Names a data block can have: "a" and "a_switcher".
DataNames == {S_a, S_a \o S_switcher}

\* A texture slot of a material.  `image` is the outcome of the tests of
\* lines 1262-1266 (an IMAGE texture with an image); the factors are in tenths.
TextureSlot(name, image, use_map_diffuse, diffuse_factor, use_map_color_diffuse, diffuse_color_factor, use_map_alpha, alpha_factor) ==
    [name |-> name, image |-> image,
     use_map_diffuse |-> use_map_diffuse, diffuse_factor |-> diffuse_factor,
     use_map_color_diffuse |-> use_map_color_diffuse,
     diffuse_color_factor |-> diffuse_color_factor,
     use_map_alpha |-> use_map_alpha, alpha_factor |-> alpha_factor]

\* An image texture with diffuse intensity at 0.3, colour at 0.5 and alpha
\* switched off at 0.6; a texture that is not an image.
TextureSlotPool ==
    {TextureSlot(S_a, TRUE, TRUE, 3, TRUE, 5, FALSE, 6),
     TextureSlot(S_a, FALSE, TRUE, 6, TRUE, 6, TRUE, 6)}

\* A material of a slot; `supported` is the outcome of the test of line 1244.
Material(name, supported, texture_slots) ==
    [name |-> name, supported |-> supported, texture_slots |-> texture_slots]
MaterialPool ==
    {Material(S_a, TRUE, <<>>), Material(S_a \o S_a, FALSE, <<>>)}
    \cup {Material(S_a \o S_B, TRUE, <<t>>) : t \in TextureSlotPool}

ObjectTypes == {"EMPTY", "CAMERA", "LAMP", "MESH", "ARMATURE"}

Object(name, type, parent, data, material_slots) ==
    [name |-> name, type |-> type, parent |-> parent, data |-> data,
     material_slots |-> material_slots]

\* The objects index i of a scene can hold; parents precede their children.
ObjectsAt(i) ==
    {o \in [name : {ObjectName(i)}, type : ObjectTypes, parent : 0..(i - 1),
            data : DataNames \cup {<<>>},
            material_slots : {<<>>} \cup {<<m>> : m \in MaterialPool}] :
        /\ (o.type \in {"CAMERA", "LAMP", "MESH"}) <=> (o.data # <<>>)
        /\ o.type # "MESH" => o.material_slots = <<>>}

RECURSIVE ObjectSeqs(_)
ObjectSeqs(n) ==
    IF n = 0 THEN {<<>>}
    ELSE {Append(objs, o) : objs \in ObjectSeqs(n - 1), o \in ObjectsAt(n)}

Scenes ==
    {[name |-> S_a, has_world |-> w, objects |-> objs,
      object_types |-> {"EMPTY", "CAMERA", "LAMP", "MESH"}] :
        w \in BOOLEAN, objs \in UNION {ObjectSeqs(n) : n \in 0..MaxObjs}}

(***************************************************************************)
(* Key generators.                                                         *)
(***************************************************************************)
get_blenderID_key(rna_name, name) == StrKey(S_B \o rna_name \o S_Sep \o name)

get_blender_camera_keys(cam_name) ==
    LET key == get_blenderID_key(S_Camera, cam_name).s
    IN  <<StrKey(key), StrKey(key \o S_switcher),
          StrKey(key \o S_switcher \o S_object)>>

\* INLUENCE_THRESHOLD = 0.5, in tenths.
INLUENCE_THRESHOLD == 5

\* The FBX material properties a texture slot drives.
fbx_mat_properties_from_texture(tex) ==
    (IF tex.use_map_diffuse /\ tex.diffuse_factor >= INLUENCE_THRESHOLD
     THEN {"DiffuseFactor"} ELSE {})
    \cup (IF tex.use_map_color_diffuse /\ tex.diffuse_color_factor >= INLUENCE_THRESHOLD
          THEN {"Diffuse"} ELSE {})
    \cup (IF tex.use_map_alpha /\ tex.alpha_factor >= INLUENCE_THRESHOLD
          THEN {"TransparencyFactor"} ELSE {})

(***************************************************************************)
(* Dictionaries are iterated in insertion order.                           *)
(***************************************************************************)
RECURSIVE Ascending(_)
Ascending(S) ==
    IF S = {} THEN <<>>
    ELSE LET m == CHOOSE x \in S : \A y \in S : x <= y
         IN  <<m>> \o Ascending(S \ {m})

RECURSIVE Distinct(_)
Distinct(seq) ==
    IF seq = <<>> THEN <<>>
    ELSE LET d == Distinct(SubSeq(seq, 1, Len(seq) - 1))
             x == seq[Len(seq)]
         IN  IF \E i \in 1..Len(d) : d[i] = x THEN d ELSE Append(d, x)

\* A variant that takes the data of every object of the scene of that type.
DataOfAnyObject(sc, objs, type) ==
    LET ids == Ascending({i \in 1..Len(sc.objects) : sc.objects[i].type = type})
    IN  Distinct([k \in 1..Len(ids) |-> sc.objects[ids[k]].data])

\* The names of the data blocks of the objects of `type` among objs, in
\* the order the objects come.
DataOf(sc, objs, type) ==
    LET ids == Ascending({i \in objs : sc.objects[i].type = type})
    IN  Distinct([k \in 1..Len(ids) |-> sc.objects[ids[k]].data])

Range(seq) == {seq[i] : i \in 1..Len(seq)}

(***************************************************************************)
(* Templates (default tables are excerpts of the tables of lines 371-593). *)
(***************************************************************************)
ModelDefaults ==
    [LookAtProperty |-> Default(NoneVal, "p_object"),
     Show |-> Default(Num(1), "p_bool"),
     GeometricTranslation |-> Default(Tup(<<0, 0, 0>>), "p_vector_3d"),
     Visibility |-> Default(Num(1), "p_visibility")]

MaterialDefaults ==
    [ShadingModel |-> Default(Str(<<1, 2>>), "p_string"),
     BumpFactor |-> Default(Num(1), "p_number"),
     Bump |-> Default(Tup(<<0, 0, 0>>), "p_vector_3d")]

fbx_template_def_globalsettings(nbr_users) == FBXTemplate("GlobalSettings", "", EmptyMap, nbr_users)
fbx_template_def_model(nbr_users) == FBXTemplate("Model", "KFbxNode", ModelDefaults, nbr_users)
fbx_template_def_light(nbr_users) ==
    FBXTemplate("NodeAttribute", "KFbxLight", [CastLight |-> Default(Num(1), "p_bool")], nbr_users)
fbx_template_def_camera(nbr_users) == FBXTemplate("NodeAttribute", "KFbxCamera", EmptyMap, nbr_users)
fbx_template_def_cameraswitcher(nbr_users) ==
    FBXTemplate("NodeAttribute", "KFbxCameraSwitcher",
                [Color |-> Default(Tup(<<1, 1, 1>>), "p_color_rgb")], nbr_users)
fbx_template_def_geometry(nbr_users) ==
    FBXTemplate("Geometry", "KFbxMesh", [BBoxMin |-> Default(Tup(<<0, 0, 0>>), "p_vector_3d")], nbr_users)
fbx_template_def_material(nbr_users) ==
    FBXTemplate("Material", "KFbxSurfacePhong", MaterialDefaults, nbr_users)

\* The keys of `templates`, in the order fbx_data_from_scene inserts them.
TemplateOrder == <<"GlobalSettings", "Model", "Light", "Camera", "CameraSwitcher",
                   "Geometry", "Material">>

RECURSIVE SumUsers(_, _)
SumUsers(templates, names) ==
    IF names = {} THEN 0
    ELSE LET n == CHOOSE x \in names : TRUE
         IN  templates[n].nbr_users + SumUsers(templates, names \ {n})

(***************************************************************************)
(* fbx_data_from_scene                                                     *)
(***************************************************************************)
\* Line 1228 without the test on obj.type.
ObjectsUnfiltered(sc) ==
    [i \in 1..Len(sc.objects) |-> get_blenderID_key(S_Object, sc.objects[i].name)]

\* Line 1228: the objects of the scene whose type passes the filter.
CollectObjects(sc) ==
    [i \in {j \in 1..Len(sc.objects) : sc.objects[j].type \in sc.object_types} |->
        get_blenderID_key(S_Object, sc.objects[i].name)]

\* Line 1282: nbr_users of the Model template.
ModelUsers(objects, data_cameras) ==
    Cardinality(DOMAIN objects) + Cardinality(DOMAIN data_cameras)

\* Lines 1237-1248: the supported materials of the collected objects.
CollectMaterials(sc, objects) ==
    {m \in MaterialPool :
        /\ m.supported
        /\ \E i \in DOMAIN objects :
              \E k \in 1..Len(sc.objects[i].material_slots) :
                  sc.objects[i].material_slots[k] = m}

\* The FBXData of a scene, or the failure of the collector: scene.world is
\* dereferenced at line 1235, and `material`, an unbound name, is read at
\* line 1256 as soon as one material was collected.
fbx_data_from_scene(sc) ==
    LET objects == CollectObjects(sc)
        objs == DOMAIN objects
        data_lamps == [d \in Range(DataOf(sc, objs, "LAMP")) |-> get_blenderID_key(S_Lamp, d)]
        data_cameras == [i \in {j \in objs : sc.objects[j].type = "CAMERA"} |->
                            get_blender_camera_keys(sc.objects[i].data)]
        data_meshes == [d \in Range(DataOf(sc, objs, "MESH")) |-> get_blenderID_key(S_Mesh, d)]
        materials == CollectMaterials(sc, objects)
        t0 == [GlobalSettings |-> fbx_template_def_globalsettings(1)]
        t1 == IF objs # {}
              THEN ("Model" :> fbx_template_def_model(ModelUsers(objects, data_cameras))) @@ t0
              ELSE t0
        t2 == IF DOMAIN data_lamps # {}
              THEN ("Light" :> fbx_template_def_light(Cardinality(DOMAIN data_lamps))) @@ t1
              ELSE t1
        t3 == IF DOMAIN data_cameras # {}
              THEN ("Camera" :> fbx_template_def_camera(Cardinality(DOMAIN data_cameras))) @@
                   ("CameraSwitcher" :>
                       fbx_template_def_cameraswitcher(Cardinality(DOMAIN data_cameras))) @@ t2
              ELSE t2
        templates == IF DOMAIN data_meshes # {}
              THEN ("Geometry" :> fbx_template_def_geometry(Cardinality(DOMAIN data_meshes))) @@ t3
              ELSE t3
    IN  IF ~sc.has_world \/ materials # {}
        THEN [raised |-> TRUE]
        ELSE [raised |-> FALSE,
              templates |-> templates,
              templates_users |-> SumUsers(templates, DOMAIN templates),
              objects |-> objects,
              data_lamps |-> data_lamps,
              data_cameras |-> data_cameras,
              data_meshes |-> data_meshes,
              data_world |-> get_blenderID_key(S_World, S_a),
              data_materials |-> EmptyMap,
              data_textures |-> EmptyMap,
              data_videos |-> EmptyMap]

(***************************************************************************)
(* Emitters.  An emitter works on st = [reg, elems, raised]: the registry, *)
(* the children of the element it fills, and whether it raised.            *)
(***************************************************************************)
Emit(reg, elems) == [reg |-> reg, elems |-> elems, raised |-> FALSE]

RECURSIVE SetToSeq(_)
SetToSeq(S) ==
    IF S = {} THEN <<>>
    ELSE LET x == CHOOSE y \in S : TRUE IN <<x>> \o SetToSeq(S \ {x})

elem_empty(name) == FBXElem(name, <<>>, <<>>)
elem_data_single_int32(name, value) == FBXElem(name, <<Prop("add_int32", Num(value))>>, <<>>)
elem_data_single_int64(name, value) == FBXElem(name, <<Prop("add_int64", Num(value))>>, <<>>)
elem_data_single_string(name, value) == FBXElem(name, <<Prop("add_string", Bytes(value))>>, <<>>)

\* name + b"\x00\x01" + cls
fbx_name_class(name, cls) == [t |-> "bytes", n |-> 0, items |-> name, b |-> cls]

\* A data block: an element carrying its UID, its name and class, and its
\* subtype.  The children of data blocks are not modelled.
DataBlock(tag, uid, name, subtype) ==
    FBXElem(tag, <<Prop("add_int64", Num(uid)),
                   Prop("add_string", fbx_name_class(name, tag)),
                   Prop("add_string", Bytes(subtype))>>, <<>>)

\* What a data-block writer does: it hands out the UID of `key` and appends
\* the block, or it raises before doing either.
Block(tag, key, name, subtype) ==
    [raises |-> FALSE, tag |-> tag, key |-> key, name |-> name, subtype |-> subtype]
RaisingWriter == [raises |-> TRUE, tag |-> "", key |-> IntKey(0), name |-> <<>>, subtype |-> ""]

fbx_data_lamp_elements(lamp) ==
    <<Block("NodeAttribute", scene_data.data_lamps[lamp], lamp, "Light")>>

\* The switcher's NodeAttribute is written before the camera's.
fbx_data_camera_elements(cam_obj) ==
    <<Block("NodeAttribute", scene_data.data_cameras[cam_obj][2],
            scene.objects[cam_obj].data \o S_switcher, "CameraSwitcher"),
      Block("NodeAttribute", scene_data.data_cameras[cam_obj][1],
            scene.objects[cam_obj].data, "Camera")>>

\* The names data_types.py defines (lines 24-37).
data_types ==
    {"BOOL", "INT16", "INT32", "INT64", "FLOAT32", "FLOAT64", "BYTES", "STRING",
     "INT32_ARRAY", "INT64_ARRAY", "FLOAT32_ARRAY", "FLOAT64_ARRAY", "BOOL_ARRAY",
     "BYTE_ARRAY"}

\* The Geometry block is written first (lines 783-786); line 791 then reads
\* data_types.ARRAY_FLOAT64, which raises if the module has no such name.
fbx_data_mesh_elements(me) ==
    <<Block("Geometry", scene_data.data_meshes[me], me, "Mesh")>>
    \o (IF "ARRAY_FLOAT64" \in data_types THEN <<>> ELSE <<RaisingWriter>>)

ModelSubtype(type) ==
    IF type = "MESH" THEN "Mesh"
    ELSE IF type = "LAMP" THEN "Light"
    ELSE IF type = "CAMERA" THEN "Camera"
    ELSE "Null"

\* A variant that writes the switcher's Model before the camera's.
ObjectElementsSwitcherFirst(obj) ==
    (IF scene.objects[obj].type = "CAMERA"
     THEN <<Block("Model", scene_data.data_cameras[obj][3],
                  scene.objects[obj].name \o S_switcher, "CameraSwitcher")>>
     ELSE <<>>)
    \o <<Block("Model", scene_data.objects[obj], scene.objects[obj].name,
               ModelSubtype(scene.objects[obj].type))>>

\* The Model of an object and, for a camera, the Model of its switcher.
fbx_data_object_elements(obj) ==
    <<Block("Model", scene_data.objects[obj], scene.objects[obj].name,
            ModelSubtype(scene.objects[obj].type))>>
    \o (IF scene.objects[obj].type = "CAMERA"
        THEN <<Block("Model", scene_data.data_cameras[obj][3],
                     scene.objects[obj].name \o S_switcher, "CameraSwitcher")>>
        ELSE <<>>)

\* Line 968 reads scene_data.world, which FBXData does not have.
fbx_data_material_elements(mat) == <<RaisingWriter>>

\* Lines 1018-1107 are unfinished; they cannot run.
fbx_data_texture_file_elements(tex) == <<RaisingWriter>>
fbx_data_video_elements(vid) == <<RaisingWriter>>

RECURSIVE Flatten(_)
Flatten(seqs) == IF seqs = <<>> THEN <<>> ELSE Head(seqs) \o Flatten(Tail(seqs))

\* The data block is appended unless the UID assignment r raises.
AppendDataBlock(st, r, b) ==
    IF r.raised THEN [st EXCEPT !.raised = TRUE]
    ELSE Emit(r.reg, Append(st.elems, DataBlock(b.tag, r.uid, b.name, b.subtype)))

\* elem_data_single_int64(root, tag, get_fbxuid_from_key(key)) and the two
\* add_string calls that follow it in every data-block writer.
EmitDataBlock(st, b) ==
    IF b.raises THEN [st EXCEPT !.raised = TRUE]
    ELSE AppendDataBlock(st, get_fbxuid_from_key(hashseed, st.reg, b.key), b)

\* The writers run in order until one raises.
RECURSIVE WriteBlocks(_, _)
WriteBlocks(st, blocks) ==
    IF blocks = <<>> \/ st.raised THEN st
    ELSE WriteBlocks(EmitDataBlock(st, Head(blocks)), Tail(blocks))

\* Lines 1443-1460: one loop per kind, in this order.
ObjectsLoops ==
    LET lamps == DataOf(scene, DOMAIN scene_data.objects, "LAMP")
        cameras == Ascending(DOMAIN scene_data.data_cameras)
        meshes == DataOf(scene, DOMAIN scene_data.objects, "MESH")
        objects == Ascending(DOMAIN scene_data.objects)
        materials == SetToSeq(DOMAIN scene_data.data_materials)
        textures == SetToSeq(DOMAIN scene_data.data_textures)
        videos == SetToSeq(DOMAIN scene_data.data_videos)
    IN  Flatten([i \in 1..Len(lamps) |-> fbx_data_lamp_elements(lamps[i])])
        \o Flatten([i \in 1..Len(cameras) |-> fbx_data_camera_elements(cameras[i])])
        \o Flatten([i \in 1..Len(meshes) |-> fbx_data_mesh_elements(meshes[i])])
        \o Flatten([i \in 1..Len(objects) |-> fbx_data_object_elements(objects[i])])
        \o Flatten([i \in 1..Len(materials) |-> fbx_data_material_elements(materials[i])])
        \o Flatten([i \in 1..Len(textures) |-> fbx_data_texture_file_elements(textures[i])])
        \o Flatten([i \in 1..Len(videos) |-> fbx_data_video_elements(videos[i])])

fbx_objects_elements(reg) == WriteBlocks(Emit(reg, <<>>), ObjectsLoops)

(***************************************************************************)
(* Definitions.                                                            *)
(***************************************************************************)
RECURSIVE TemplateProps(_, _, _)
TemplateProps(elems, properties, names) ==
    IF names = <<>> THEN elems
    ELSE LET name == Head(names)
             r == elem_props_set(elems, properties[name].ptype, name, properties[name].val)
         IN  TemplateProps(r.elems, properties, Tail(names))

\* A variant that writes the PropertyTemplate child for every template.
TemplateGenerateAlwaysProperties(elems, fbx_template) ==
    Append(elems,
           FBXElem("ObjectType", <<Prop("add_string", Bytes(fbx_template.type_name))>>,
                   <<elem_data_single_int32("Count", fbx_template.nbr_users),
                     FBXElem("PropertyTemplate",
                             <<Prop("add_string", Bytes(fbx_template.prop_type_name))>>,
                             <<FBXElem("Properties70", <<>>,
                                       TemplateProps(<<>>, fbx_template.properties,
                                                     SetToSeq(DOMAIN fbx_template.properties)))>>)>>))

fbx_template_generate(elems, fbx_template) ==
    LET count == elem_data_single_int32("Count", fbx_template.nbr_users)
        props == FBXElem("Properties70", <<>>,
                         TemplateProps(<<>>, fbx_template.properties,
                                       SetToSeq(DOMAIN fbx_template.properties)))
        ptmpl == FBXElem("PropertyTemplate",
                         <<Prop("add_string", Bytes(fbx_template.prop_type_name))>>,
                         <<props>>)
    IN  Append(elems,
               FBXElem("ObjectType", <<Prop("add_string", Bytes(fbx_template.type_name))>>,
                       IF DOMAIN fbx_template.properties # {}
                       THEN <<count, ptmpl>> ELSE <<count>>))

RECURSIVE GenerateTemplates(_, _)
GenerateTemplates(elems, names) ==
    IF names = <<>> THEN elems
    ELSE GenerateTemplates(fbx_template_generate(elems, scene_data.templates[Head(names)]),
                           Tail(names))

fbx_definitions_elements ==
    FBXElem("Definitions", <<>>,
        GenerateTemplates(<<elem_data_single_int32("Version", 100),
                            elem_data_single_int32("Count", scene_data.templates_users)>>,
                          SelectSeq(TemplateOrder,
                                    LAMBDA n : n \in DOMAIN scene_data.templates)))

(***************************************************************************)
(* Connections.                                                            *)
(***************************************************************************)
elem_connection(c_type, uid_src, uid_dst) ==
    FBXElem("C", <<Prop("add_string", Bytes(c_type)),
                   Prop("add_int64", Num(uid_src)),
                   Prop("add_int64", Num(uid_dst))>>, <<>>)

\* What one elem_connection_oo statement does: it hands out the UIDs of
\* `src` and `dst`, in this order, and appends the edge, or it raises before.
Connection(src, dst) == [raises |-> FALSE, src |-> src, dst |-> dst]
RaisingConnection == [raises |-> TRUE, src |-> IntKey(0), dst |-> IntKey(0)]

\* Lines 1469-1475.
ConnectParent(obj) ==
    LET par == scene.objects[obj].parent
        par_key == IF par # 0 /\ par \in DOMAIN scene_data.objects
                   THEN scene_data.objects[par]
                   ELSE IntKey(0)
    IN  <<Connection(scene_data.objects[obj], par_key)>>

\* Lines 1478-1483.
ConnectCamera(obj_cam) ==
    <<Connection(scene_data.data_cameras[obj_cam][2], scene_data.data_cameras[obj_cam][3]),
      Connection(scene_data.data_cameras[obj_cam][1], scene_data.objects[obj_cam])>>

\* Lines 1485-1491.
ConnectData(obj) ==
    IF scene.objects[obj].type = "LAMP"
    THEN <<Connection(scene_data.data_lamps[scene.objects[obj].data], scene_data.objects[obj])>>
    ELSE IF scene.objects[obj].type = "MESH"
    THEN <<Connection(scene_data.data_meshes[scene.objects[obj].data],
                      scene_data.objects[obj])>>
    ELSE <<>>

\* Line 1495 reads scene_data.data_objects, which FBXData does not have.
ConnectMaterial(mat) == <<RaisingConnection>>

\* Line 1500 hands a (key, objects) pair to get_fbxuid_from_key: unhashable.
ConnectTexture(tex) == <<RaisingConnection>>

\* Line 1506 does the same with a (key, materials) pair.
ConnectVideo(vid) == <<RaisingConnection>>

\* The edge is appended unless one of the two UID assignments raises.
AppendConnection(st, r1, r2) ==
    IF r1.raised \/ r2.raised THEN [st EXCEPT !.raised = TRUE]
    ELSE Emit(r2.reg, Append(st.elems, elem_connection("OO", r1.uid, r2.uid)))

\* The destination's UID is assigned after the source's.
ConnectFrom(st, r1, dst_key) ==
    AppendConnection(st, r1, get_fbxuid_from_key(hashseed, r1.reg, dst_key))

\* elem_connection_oo(connections, get_fbxuid_from_key(src), get_fbxuid_from_key(dst))
ConnectOO(st, c) ==
    IF c.raises THEN [st EXCEPT !.raised = TRUE]
    ELSE ConnectFrom(st, get_fbxuid_from_key(hashseed, st.reg, c.src), c.dst)

RECURSIVE WriteConnections(_, _)
WriteConnections(st, cs) ==
    IF cs = <<>> \/ st.raised THEN st
    ELSE WriteConnections(ConnectOO(st, Head(cs)), Tail(cs))

\* Lines 1469-1507: one loop per kind of edge, in this order.
ConnectionsLoops ==
    LET objects == Ascending(DOMAIN scene_data.objects)
        cameras == Ascending(DOMAIN scene_data.data_cameras)
        materials == SetToSeq(DOMAIN scene_data.data_materials)
        textures == SetToSeq(DOMAIN scene_data.data_textures)
        videos == SetToSeq(DOMAIN scene_data.data_videos)
    IN  Flatten([i \in 1..Len(objects) |-> ConnectParent(objects[i])])
        \o Flatten([i \in 1..Len(cameras) |-> ConnectCamera(cameras[i])])
        \o Flatten([i \in 1..Len(objects) |-> ConnectData(objects[i])])
        \o Flatten([i \in 1..Len(materials) |-> ConnectMaterial(materials[i])])
        \o Flatten([i \in 1..Len(textures) |-> ConnectTexture(textures[i])])
        \o Flatten([i \in 1..Len(videos) |-> ConnectVideo(videos[i])])

fbx_connections_elements(reg) == WriteConnections(Emit(reg, <<>>), ConnectionsLoops)

(***************************************************************************)
(* Spec: save_single, pass by pass.                                        *)
(***************************************************************************)
\* A variant that puts the new child first.
PrependChild(elem, sub_elem) == [elem EXCEPT !.elems = <<sub_elem>> \o @]

\* elem_empty and the elem_data_* makers append the new element to its parent.
AddChild(elem, sub_elem) == [elem EXCEPT !.elems = Append(@, sub_elem)]

Init ==
    /\ hashseed \in 0..MaxSeed
    /\ keys_to_uids = EmptyMap
    /\ uids_to_keys = EmptyMap
    /\ call = NoCall
    /\ first_uid = EmptyMap
    /\ IdleProps
    /\ scene \in Scenes
    /\ pc = "start"
    /\ scene_data = <<>>
    /\ root = <<>>

\* Line 1578.
Collect ==
    /\ pc = "start"
    /\ LET r == fbx_data_from_scene(scene)
       IN  IF r.raised
           THEN pc' = "failed" /\ UNCHANGED scene_data
           ELSE pc' = "collected" /\ scene_data' = r
    /\ UNCHANGED <<hashseed, keys_to_uids, uids_to_keys, call, first_uid,
                   p_in, p_out, scene, root>>

\* Lines 1580-1583: the root element and fbx_header_elements.
Header ==
    /\ pc = "collected"
    /\ root' = FBXElem("", <<>>,
                   <<elem_empty("FBXHeaderExtension"), elem_empty("FileId"),
                     elem_empty("CreationTime"), elem_empty("Creator"),
                     elem_empty("GlobalSettings")>>)
    /\ pc' = "header"
    /\ UNCHANGED <<hashseed, keys_to_uids, uids_to_keys, call, first_uid,
                   p_in, p_out, scene, scene_data>>

\* Lines 1405-1407: the properties of the document.
DocumentProps ==
    elem_props_set(elem_props_set(<<>>, "p_object", "SourceObject", NoneVal).elems,
                   "p_string", "ActiveAnimStackName", Str(<<>>)).elems

\* The Documents element for the outcome r of the document's UID assignment;
\* its Count is written before the UID is asked for.
DocumentsElem(r) ==
    FBXElem("Documents", <<>>,
        <<elem_data_single_int32("Count", 1)>>
        \o (IF r.raised THEN <<>>
            ELSE <<FBXElem("Document",
                       <<Prop("add_int64", Num(r.uid)), Prop("add_string", Bytes("")),
                         Prop("add_string_unicode", Str(scene.name))>>,
                       <<FBXElem("Properties70", <<>>, DocumentProps),
                         elem_data_single_int64("RootNode", 0)>>)>>))

\* A pass that hands out UIDs ends: the registry and the tree take its
\* result, and the export goes on unless the pass raised.
EndPass(reg, raised, elem, next_pc) ==
    /\ keys_to_uids' = reg.k2u
    /\ uids_to_keys' = reg.u2k
    /\ root' = AddChild(root, elem)
    /\ pc' = IF raised THEN "failed" ELSE next_pc
    /\ UNCHANGED <<hashseed, call, first_uid, p_in, p_out, scene, scene_data>>

DocumentsPass(r) == EndPass(r.reg, r.raised, DocumentsElem(r), "documents")

\* Line 1586: fbx_documents_elements.
Documents ==
    /\ pc = "header"
    /\ DocumentsPass(get_fbxuid_from_key(hashseed, Registry(keys_to_uids, uids_to_keys),
                                         StrKey(S_FBX_Document \o scene.name)))

\* Line 1587: fbx_references_elements.
References ==
    /\ pc = "documents"
    /\ root' = AddChild(root, elem_empty("References"))
    /\ pc' = "references"
    /\ UNCHANGED <<hashseed, keys_to_uids, uids_to_keys, call, first_uid,
                   p_in, p_out, scene, scene_data>>

\* A variant that uses up the count of template users while writing it.
DefinitionsUsingUpCount ==
    /\ pc = "references"
    /\ root' = AddChild(root, fbx_definitions_elements)
    /\ pc' = "definitions"
    /\ scene_data' = [scene_data EXCEPT !.templates_users = 0]
    /\ UNCHANGED <<hashseed, keys_to_uids, uids_to_keys, call, first_uid,
                   p_in, p_out, scene>>

\* Line 1590.
Definitions ==
    /\ pc = "references"
    /\ root' = AddChild(root, fbx_definitions_elements)
    /\ pc' = "definitions"
    /\ UNCHANGED <<hashseed, keys_to_uids, uids_to_keys, call, first_uid,
                   p_in, p_out, scene, scene_data>>

ObjectsPass(st) == EndPass(st.reg, st.raised, FBXElem("Objects", <<>>, st.elems), "objects")

\* Line 1593.
Objects ==
    /\ pc = "definitions"
    /\ ObjectsPass(fbx_objects_elements(Registry(keys_to_uids, uids_to_keys)))

ConnectionsPass(st) ==
    EndPass(st.reg, st.raised, FBXElem("Connections", <<>>, st.elems), "connections")

\* Line 1596.
Connections ==
    /\ pc = "objects"
    /\ ConnectionsPass(fbx_connections_elements(Registry(keys_to_uids, uids_to_keys)))

\* Line 1599: fbx_takes_elements.
Takes ==
    /\ pc = "connections"
    /\ root' = AddChild(root, elem_empty("Takes"))
    /\ pc' = "takes"
    /\ UNCHANGED <<hashseed, keys_to_uids, uids_to_keys, call, first_uid,
                   p_in, p_out, scene, scene_data>>

\* A variant that also writes what a failed export has built.
WriteEvenIfFailed ==
    /\ pc \in {"takes", "failed"}
    /\ pc' = "written"
    /\ UNCHANGED <<hashseed, keys_to_uids, uids_to_keys, call, first_uid,
                   p_in, p_out, scene, scene_data, root>>

\* Line 1602: encode_bin.write(filepath, root, FBX_VERSION).
Write ==
    /\ pc = "takes"
    /\ pc' = "written"
    /\ UNCHANGED <<hashseed, keys_to_uids, uids_to_keys, call, first_uid,
                   p_in, p_out, scene, scene_data, root>>

\* The scenes of the exports that follow the first one in the same process:
\* empty, or holding one lamp object or one mesh object without material.
NextScenes ==
    {sc \in Scenes : /\ Len(sc.objects) <= 1
                     /\ \A i \in 1..Len(sc.objects) :
                            sc.objects[i].type \in {"LAMP", "MESH"} /\ sc.objects[i].material_slots = <<>>}

\* Lines 1672-1703, or the operator run again in the same session:
\* save_single is called for another scene.  _keys_to_uids and _uids_to_keys
\* are module globals (lines 117-118) that nothing clears, so the registry
\* is the one the earlier exports left.
SaveNext ==
    /\ pc \in {"written", "failed"}
    /\ Cardinality(DOMAIN keys_to_uids) < MaxRegistry
    /\ scene' \in NextScenes
    /\ pc' = "start"
    /\ scene_data' = <<>>
    /\ root' = <<>>
    /\ UNCHANGED <<hashseed, keys_to_uids, uids_to_keys, call, first_uid, p_in, p_out>>

Next ==
    \/ Collect
    \/ Header
    \/ Documents
    \/ References
    \/ Definitions
    \/ Objects
    \/ Connections
    \/ Takes
    \/ Write
    \/ SaveNext

Spec == Init /\ [][Next]_vars

(***************************************************************************)
(* Reading the tree.                                                       *)
(***************************************************************************)
HasChild(elem, name) == \E i \in 1..Len(elem.elems) : elem.elems[i].name = name
Child(elem, name) == elem.elems[CHOOSE i \in 1..Len(elem.elems) : elem.elems[i].name = name]
Children(elem, name) == SelectSeq(elem.elems, LAMBDA e : e.name = name)

\* The passes that have completed.
AfterDefinitions == pc \in {"definitions", "objects", "connections", "takes", "written"}
AfterObjects == pc \in {"objects", "connections", "takes", "written"}
AfterConnections == pc \in {"connections", "takes", "written"}
\* The export is over, written or not.
Ended == pc \in {"failed", "written"}
\* The Objects pass has run, to its end or to the point where it raised.
ObjectsRan == root # <<>> /\ HasChild(root, "Objects")

DefinitionsCount == Child(Child(root, "Definitions"), "Count").props[1].val.n
ObjectTypeElems == Children(Child(root, "Definitions"), "ObjectType")
ObjectTypeCount(e) == Child(e, "Count").props[1].val.n

RECURSIVE SumCounts(_)
SumCounts(elems) ==
    IF elems = <<>> THEN 0 ELSE ObjectTypeCount(Head(elems)) + SumCounts(Tail(elems))

\* The data blocks under Objects and the edges under Connections.
DataBlocks == Child(root, "Objects").elems
Edges == Child(root, "Connections").elems
BlockUid(e) == e.props[1].val.n
EdgeType(e) == e.props[1].val.b
EdgeSrc(e) == e.props[2].val.n
EdgeDst(e) == e.props[3].val.n

\* The number of edges of a type from src to dst, and from src at all.
CountEdges(c_type, src, dst) ==
    Cardinality({i \in 1..Len(Edges) :
        EdgeType(Edges[i]) = c_type /\ EdgeSrc(Edges[i]) = src /\ EdgeDst(Edges[i]) = dst})
CountEdgesFrom(c_type, src) ==
    Cardinality({i \in 1..Len(Edges) :
        EdgeType(Edges[i]) = c_type /\ EdgeSrc(Edges[i]) = src})

UidOf(key) == keys_to_uids[key]

(***************************************************************************)
(* Claims about the export (checked under Spec).                           *)
(***************************************************************************)
\* C7: once the Objects pass has run, the Definitions Count equals the sum
\* of nbr_users over the emitted templates, and that sum equals the number
\* of data blocks emitted under Objects.
C7_CountEqualsDataBlocks ==
    ObjectsRan =>
        /\ DefinitionsCount = SumCounts(ObjectTypeElems)
        /\ SumCounts(ObjectTypeElems) = Len(DataBlocks)

NoObjectMatches ==
    \A i \in 1..Len(scene.objects) : scene.objects[i].type \notin scene.object_types

GlobalSettingsOnly(count) ==
    /\ Len(ObjectTypeElems) = 1
    /\ ObjectTypeElems[1].props[1].val.b = "GlobalSettings"
    /\ ObjectTypeCount(ObjectTypeElems[1]) = count

C9_OneParentEdgePerObject ==
    AfterConnections =>
        \A obj \in DOMAIN scene_data.objects :
            LET par == scene.objects[obj].parent
                uid == UidOf(scene_data.objects[obj])
                dst == IF par # 0 /\ par \in DOMAIN scene_data.objects
                       THEN UidOf(scene_data.objects[par])
                       ELSE 0
            IN  /\ CountEdgesFrom("OO", uid) = 1
                /\ CountEdges("OO", uid, dst) = 1

\* C10: every camera object has a switcher-data and a switcher-model UID of
\* its own, distinct from its camera-data and model UIDs and from the UIDs
\* of every other camera object, and exactly the two OO edges
\* switcher-data -> switcher-model and camera-data -> model.
CameraUids(obj) ==
    {UidOf(scene_data.data_cameras[obj][k]) : k \in 1..3} \cup {UidOf(scene_data.objects[obj])}

C10_CameraSwitcherPerObject ==
    AfterConnections =>
        \A a \in DOMAIN scene_data.data_cameras :
            LET keys == scene_data.data_cameras[a]
            IN  /\ Cardinality(CameraUids(a)) = 4
                /\ \A b \in DOMAIN scene_data.data_cameras :
                      a # b => CameraUids(a) \cap CameraUids(b) = {}
                /\ CountEdges("OO", UidOf(keys[2]), UidOf(keys[3])) = 1
                /\ CountEdgesFrom("OO", UidOf(keys[2])) = 1
                /\ CountEdges("OO", UidOf(keys[1]), UidOf(scene_data.objects[a])) = 1

\* The number of data blocks under Objects with this tag and UID.
CountBlocks(tag, uid) ==
    Cardinality({i \in 1..Len(DataBlocks) :
        DataBlocks[i].name = tag /\ BlockUid(DataBlocks[i]) = uid})

\* The key of the data block of a mesh or lamp object, and its tag.
DataKeyOf(obj) ==
    IF scene.objects[obj].type = "MESH"
    THEN scene_data.data_meshes[scene.objects[obj].data]
    ELSE scene_data.data_lamps[scene.objects[obj].data]
DataTagOf(obj) == IF scene.objects[obj].type = "MESH" THEN "Geometry" ELSE "NodeAttribute"

\* What C11 says of every mesh and lamp object: one Model block, one block
\* for its data, one OO edge from the data to the object.
MeshAndLampBlocks ==
    \A obj \in DOMAIN scene_data.objects :
        scene.objects[obj].type \in {"MESH", "LAMP"} =>
            /\ CountBlocks("Model", UidOf(scene_data.objects[obj])) = 1
            /\ CountBlocks(DataTagOf(obj), UidOf(DataKeyOf(obj))) = 1
            /\ CountEdges("OO", UidOf(DataKeyOf(obj)), UidOf(scene_data.objects[obj])) = 1

OneParentlessMesh == Len(scene.objects) = 1 /\ scene.objects[1].type = "MESH"

\* C11: the export of a dataset with a mesh or lamp object is written, and
\* every mesh and lamp object of the dataset has one Model block, one
\* Geometry or Light block per distinct data block and exactly one OO edge
\* from the data block to the object; a scene of one parentless mesh object
\* yields exactly two data blocks (Geometry, Model) and exactly two edges,
\* Geometry to Model and Model to 0.
C11_MeshAndLampConnected ==
    (/\ Ended /\ scene_data # <<>>
     /\ \E obj \in DOMAIN scene_data.objects : scene.objects[obj].type \in {"MESH", "LAMP"}) =>
        /\ pc = "written"
        /\ MeshAndLampBlocks
        /\ OneParentlessMesh =>
              /\ Len(DataBlocks) = 2
              /\ DataBlocks[1].name = "Geometry" /\ DataBlocks[2].name = "Model"
              /\ Len(Edges) = 2
              /\ CountEdges("OO", BlockUid(DataBlocks[1]), BlockUid(DataBlocks[2])) = 1
              /\ CountEdges("OO", BlockUid(DataBlocks[2]), 0) = 1

\* The supported materials of the objects that pass the filter, and the
\* (material, object using it) pairs.
SceneMaterials == CollectMaterials(scene, CollectObjects(scene))
MaterialUses ==
    {<<m, i>> \in SceneMaterials \X DOMAIN CollectObjects(scene) :
        \E k \in 1..Len(scene.objects[i].material_slots) :
            scene.objects[i].material_slots[k] = m}

\* The OO edges whose source is the UID of a Material data block.
MaterialEdges ==
    {i \in 1..Len(Edges) :
        /\ EdgeType(Edges[i]) = "OO"
        /\ CountBlocks("Material", EdgeSrc(Edges[i])) >= 1}

\* C12: an export of a scene (with a world) with supported materials
\* completes, its Material template has as many users as there are distinct
\* collected materials, and Connections holds one OO edge per (material,
\* object using it) pair.
C12_MaterialsExported ==
    (scene.has_world /\ SceneMaterials # {}) =>
        /\ pc # "failed"
        /\ AfterDefinitions =>
              \E i \in 1..Len(ObjectTypeElems) :
                  /\ ObjectTypeElems[i].props[1].val.b = "Material"
                  /\ ObjectTypeCount(ObjectTypeElems[i]) = Cardinality(SceneMaterials)
        /\ AfterConnections => Cardinality(MaterialEdges) = Cardinality(MaterialUses)


\* The (material, slot) pairs of the collected materials whose image texture
\* drives property prop.
Driving(prop) ==
    {<<m, k>> \in SceneMaterials \X {1} :
        /\ k \in 1..Len(m.texture_slots)
        /\ m.texture_slots[k].image
        /\ prop \in fbx_mat_properties_from_texture(m.texture_slots[k])}

\* The number of OP edges under Connections that carry property prop.
CountOP(prop) ==
    IF root = <<>> \/ ~HasChild(root, "Connections") THEN 0
    ELSE Cardinality({i \in 1..Len(Edges) :
             /\ EdgeType(Edges[i]) = "OP"
             /\ Len(Edges[i].props) = 4
             /\ Edges[i].props[4].val.b = prop})

\* C13: once the export of a scene (with a world) has ended, Connections
\* holds, for each of the three mapped properties, one OP edge per image
\* texture slot of a collected material that drives the property with an
\* influence of at least 0.5, and no other OP edge for it.
C13_TextureEdges ==
    (Ended /\ scene.has_world) =>
        \A prop \in {"DiffuseFactor", "Diffuse", "TransparencyFactor"} :
            CountOP(prop) = Cardinality(Driving(prop))

\* The registry the export of the current scene builds from an empty one:
\* the document's key, then the keys of the Objects pass, then those of the
\* Connections pass.
FreshDocument ==
    get_fbxuid_from_key(hashseed, Registry(EmptyMap, EmptyMap),
                        StrKey(S_FBX_Document \o scene.name)).reg
FreshRegistry == fbx_connections_elements(fbx_objects_elements(FreshDocument).reg).reg

\* C14: when an export is written, every key of its scene has the UID it
\* gets from a fresh registry, and the registry holds no other key, whatever
\* was exported before in the same process.
C14_ExportsIsolated ==
    pc = "written" => keys_to_uids = FreshRegistry.k2u

(***************************************************************************)
(* More claims about the property setters (checked under SpecProps).       *)
(***************************************************************************)
\* The value is a tuple whose length is not the number of setters of the
\* (multi-value) kind.
ArityMismatch ==
    /\ Arity(p_in.ptype_name) > 1
    /\ p_in.value.t = "tuple"
    /\ Len(p_in.value.items) # Arity(p_in.ptype_name)

\* C15: encoding a multi-value kind with a value of another number of
\* components fails, and leaves no "P" element whose number of values is
\* not the kind's arity.
C15_ArityMismatchFatal ==
    (p_out.plain.called /\ ArityMismatch) =>
        /\ p_out.plain.raised
        /\ \A i \in (Len(p_in.elems) + 1)..Len(p_out.plain.elems) :
              Len(p_out.plain.elems[i].props) = 4 + Arity(p_in.ptype_name)

(***************************************************************************)
(* More claims about the export (checked under Spec).                      *)
(***************************************************************************)
\* The keys the Connections pass asks the registry for.
ConnectionKeys ==
    UNION {{ConnectionsLoops[i].src, ConnectionsLoops[i].dst} :
              i \in {j \in 1..Len(ConnectionsLoops) : ~ConnectionsLoops[j].raises}}

\* C16: the Connections pass allocates no UID: when it needs a key the
\* registry does not hold, the export fails, and in no case does the pass
\* add a key to the registry.
C16_AbsentKeyFails ==
    [][(pc = "objects" /\ pc' # "objects") =>
          /\ keys_to_uids' = keys_to_uids
          /\ (ConnectionKeys \ DOMAIN keys_to_uids # {}) => pc' = "failed"]_vars

\* The sections of the root, in the order save_single calls their emitters.
SectionOrder ==
    <<"FBXHeaderExtension", "FileId", "CreationTime", "Creator", "GlobalSettings",
      "Documents", "References", "Definitions", "Objects", "Connections", "Takes">>

\* The number of sections present once a pass has completed.
SectionsAfter ==
    [header |-> 5, documents |-> 6, references |-> 7, definitions |-> 8,
     objects |-> 9, connections |-> 10, takes |-> 11, written |-> 11]

RootNames == [i \in 1..Len(root.elems) |-> root.elems[i].name]
IsPrefix(a, b) == Len(a) <= Len(b) /\ a = SubSeq(b, 1, Len(a))
HasRoot == pc \notin {"start", "collected"} /\ scene_data # <<>>

\* C17: the collector runs before any emitter, the emitters run in the
\* order header, Documents, References, Definitions, Objects, Connections,
\* Takes, each once, so the root's children are at every moment the first
\* sections of that order, and all of them when the writer is called.
C17_PassesInOrder ==
    /\ ~HasRoot => root = <<>>
    /\ HasRoot =>
          /\ IsPrefix(RootNames, SectionOrder)
          /\ pc \in DOMAIN SectionsAfter => Len(RootNames) = SectionsAfter[pc]

C17_Witness_WrittenWithEdges ==
    /\ pc = "written"
    /\ RootNames = SectionOrder
    /\ Len(DataBlocks) >= 2
    /\ Len(Edges) >= 2

\* The tag, the name and the subtype of a data block.
BlockTag(e) == e.name
BlockName(e) == e.props[2].val.items
BlockSubtype(e) == e.props[3].val.b

\* The place of a data block's class in the order of the Objects element.
ClassRank(e) ==
    CASE BlockTag(e) = "NodeAttribute" /\ BlockSubtype(e) = "Light" -> 1
      [] BlockTag(e) = "NodeAttribute" /\ BlockSubtype(e) # "Light" -> 2
      [] BlockTag(e) = "Geometry" -> 3
      [] BlockTag(e) = "Model" -> 4
      [] BlockTag(e) = "Material" -> 5
      [] BlockTag(e) = "Texture" -> 6
      [] BlockTag(e) = "Video" -> 7

\* Block i is the switcher block of the camera block i + 1 (NodeAttributes),
\* or block i + 1 is the switcher block of the camera block i (Models).
SwitcherThenCamera(i) ==
    /\ i + 1 <= Len(DataBlocks)
    /\ BlockTag(DataBlocks[i]) = "NodeAttribute" /\ BlockTag(DataBlocks[i + 1]) = "NodeAttribute"
    /\ BlockSubtype(DataBlocks[i]) = "CameraSwitcher"
    /\ BlockSubtype(DataBlocks[i + 1]) = "Camera"
    /\ BlockName(DataBlocks[i]) = BlockName(DataBlocks[i + 1]) \o S_switcher
CameraThenSwitcher(i) ==
    /\ i + 1 <= Len(DataBlocks)
    /\ BlockTag(DataBlocks[i]) = "Model" /\ BlockTag(DataBlocks[i + 1]) = "Model"
    /\ BlockSubtype(DataBlocks[i]) = "Camera"
    /\ BlockSubtype(DataBlocks[i + 1]) = "CameraSwitcher"
    /\ BlockName(DataBlocks[i + 1]) = BlockName(DataBlocks[i]) \o S_switcher

\* C18: under Objects no data block of a later class precedes one of an
\* earlier class (lights, cameras, meshes, models, materials, textures,
\* videos); each switcher NodeAttribute comes immediately before its
\* camera NodeAttribute and each camera Model immediately before its
\* switcher Model.
C18_ObjectsGroupedByClass ==
    ObjectsRan =>
        /\ \A i, j \in 1..Len(DataBlocks) :
              i < j => ClassRank(DataBlocks[i]) <= ClassRank(DataBlocks[j])
        /\ \A i \in 1..Len(DataBlocks) :
              /\ (ClassRank(DataBlocks[i]) = 2 /\ BlockSubtype(DataBlocks[i]) = "CameraSwitcher")
                    => SwitcherThenCamera(i)
              /\ (ClassRank(DataBlocks[i]) = 2 /\ BlockSubtype(DataBlocks[i]) = "Camera")
                    => (i > 1 /\ SwitcherThenCamera(i - 1))
              /\ (ClassRank(DataBlocks[i]) = 4 /\ BlockSubtype(DataBlocks[i]) = "Camera")
                    => CameraThenSwitcher(i)
              /\ (ClassRank(DataBlocks[i]) = 4 /\ BlockSubtype(DataBlocks[i]) = "CameraSwitcher")
                    => (i > 1 /\ CameraThenSwitcher(i - 1))

C18_Witness_CameraAndLamp ==
    /\ AfterObjects
    /\ Len(DataBlocks) >= 6
    /\ \E i \in 1..Len(DataBlocks) : ClassRank(DataBlocks[i]) = 1
    /\ \E i \in 1..Len(DataBlocks) : CameraThenSwitcher(i)

\* C19: the writer is called only from the state the Takes pass leaves, with
\* the complete tree, which it does not change; an export that failed or
\* was written goes nowhere but to the start of another export, so a failed
\* export is never written and no export is written twice.
C19_AllOrNothing ==
    [][/\ (pc' = "written" /\ pc # "written") =>
              (pc = "takes" /\ RootNames = SectionOrder /\ root' = root)
       /\ pc = "failed" => pc' \in {"failed", "start"}
       /\ pc = "written" => pc' \in {"written", "start"}]_vars

\* An export that failed in the collector after another one was written.
C19_Witness_FailedAfterWritten ==
    /\ pc = "failed"
    /\ root = <<>>
    /\ keys_to_uids # EmptyMap

\* The templates of the export, in the order the Definitions pass takes them.
TemplatesWritten == SelectSeq(TemplateOrder, LAMBDA n : n \in DOMAIN scene_data.templates)
\* The "P" elements of an ObjectType element, and those of one name.
TemplatePs(e) == Child(Child(e, "PropertyTemplate"), "Properties70").elems
TemplatePsOf(e, name) == SelectSeq(TemplatePs(e), LAMBDA p : p.props[1].val = Bytes(name))
\* The "P" element holds the name, the three type strings of the kind and
\* every value of the default entry.
WrittenInFull(p, name, d) ==
    LET ptype == FBX_PROPERTIES_DEFINITIONS[d.ptype]
    IN  /\ p.name = "P"
        /\ p.elems = <<>>
        /\ Len(p.props) = 1 + Len(ptype)
        /\ p.props[1] = Prop("add_string", Bytes(name))
        /\ \A i \in 1..3 : p.props[1 + i] = Prop("add_string", Bytes(ptype[i]))
        /\ \A i \in 1..(Len(ptype) - 3) :
               p.props[4 + i] = Prop(ptype[3 + i],
                                     IF Len(ptype) = 4 THEN d.val ELSE Item(d.val, i))
GeneratedFrom(e, t) ==
    /\ e.props = <<Prop("add_string", Bytes(t.type_name))>>
    /\ Len(Children(e, "Count")) = 1
    /\ ObjectTypeCount(e) = t.nbr_users
    /\ HasChild(e, "PropertyTemplate") <=> DOMAIN t.properties # {}
    /\ DOMAIN t.properties # {} =>
           /\ Len(e.elems) = 2
           /\ Len(Children(e, "PropertyTemplate")) = 1
           /\ Child(e, "PropertyTemplate").props = <<Prop("add_string", Bytes(t.prop_type_name))>>
           /\ Len(Child(e, "PropertyTemplate").elems) = 1
           /\ Len(TemplatePs(e)) = Cardinality(DOMAIN t.properties)
           /\ \A name \in DOMAIN t.properties :
                  /\ Len(TemplatePsOf(e, name)) = 1
                  /\ WrittenInFull(TemplatePsOf(e, name)[1], name, t.properties[name])

\* C20: once the Definitions pass has run, there is one ObjectType element
\* per template, in order; its Count child is the template's nbr_users, it
\* has a PropertyTemplate child exactly when the template's default table is
\* not empty, and then Properties70 holds one complete "P" element per
\* default entry.
C20_TemplateGenerated ==
    AfterDefinitions =>
        /\ Len(ObjectTypeElems) = Len(TemplatesWritten)
        /\ \A k \in 1..Len(TemplatesWritten) :
               GeneratedFrom(ObjectTypeElems[k], scene_data.templates[TemplatesWritten[k]])

\* The definitions hold a template with an empty table, one with several
\* defaults of which one has three values, and one used more than once.
C20_Witness_EmptyAndFullTables ==
    /\ AfterDefinitions
    /\ \E k \in 1..Len(ObjectTypeElems) : ~HasChild(ObjectTypeElems[k], "PropertyTemplate")
    /\ \E k \in 1..Len(ObjectTypeElems) :
           /\ HasChild(ObjectTypeElems[k], "PropertyTemplate")
           /\ Len(TemplatePs(ObjectTypeElems[k])) >= 2
           /\ \E i \in 1..Len(TemplatePs(ObjectTypeElems[k])) :
                  Len(TemplatePs(ObjectTypeElems[k])[i].props) = 7
           /\ ObjectTypeCount(ObjectTypeElems[k]) >= 2

(***************************************************************************)
(* The collector alone, under several settings.object_types.               *)
(***************************************************************************)
\* Values of settings.object_types: everything the exporter knows, and
\* the same without lamps.
ObjectTypeFilters == {{"EMPTY", "CAMERA", "LAMP", "MESH"}, {"EMPTY", "CAMERA", "MESH"}}

InitData ==
    /\ IdleUID
    /\ IdleProps
    /\ scene \in {[sc EXCEPT !.object_types = t] : sc \in Scenes, t \in ObjectTypeFilters}
    /\ pc = "start"
    /\ scene_data = <<>>
    /\ root = <<>>

NextData == Collect

SpecData == InitData /\ [][NextData]_vars

\* The objects of the scene of one type that were collected.
CollectedOfType(type) ==
    {i \in DOMAIN scene_data.objects : scene.objects[i].type = type}

\* C21: in the dataset the collector returns, every lamp and mesh entry is
\* the data of a collected object of that type, every camera entry is a
\* collected camera object, and the objects, materials and textures listed
\* in the association tables are keys of objects, data_materials and
\* data_textures.
C21_AssociationsClosed ==
    pc = "collected" =>
        /\ \A d \in DOMAIN scene_data.data_lamps :
               \E i \in CollectedOfType("LAMP") : scene.objects[i].data = d
        /\ \A d \in DOMAIN scene_data.data_meshes :
               \E i \in CollectedOfType("MESH") : scene.objects[i].data = d
        /\ DOMAIN scene_data.data_cameras \subseteq CollectedOfType("CAMERA")
        /\ \A m \in DOMAIN scene_data.data_materials :
               scene_data.data_materials[m].objs \subseteq DOMAIN scene_data.objects
        /\ \A t \in DOMAIN scene_data.data_textures :
               DOMAIN scene_data.data_textures[t].mats \subseteq DOMAIN scene_data.data_materials
        /\ \A v \in DOMAIN scene_data.data_videos :
               scene_data.data_videos[v].texs \subseteq DOMAIN scene_data.data_textures

\* A dataset with a mesh or a camera entry, returned for a scene one of
\* whose lamp objects the filter left out.
C21_Witness_LampFilteredOut ==
    /\ pc = "collected"
    /\ \E i \in 1..Len(scene.objects) :
           scene.objects[i].type = "LAMP" /\ i \notin DOMAIN scene_data.objects
    /\ (DOMAIN scene_data.data_meshes # {} \/ DOMAIN scene_data.data_cameras # {})

\* C22: from the return of the collector to the end of the export, whether
\* it is written or fails in a pass, the dataset and the templates are the
\* ones fbx_data_from_scene returned for the scene.
C22_DatasetUnchanged ==
    (pc \notin {"start", "idle"} /\ scene_data # <<>>) =>
        \A f \in {"objects", "data_lamps", "data_cameras", "data_meshes", "data_materials",
                  "data_textures", "data_videos", "templates", "templates_users"} :
            scene_data[f] = fbx_data_from_scene(scene)[f]

\* A written export of a scene with a camera and another kind of data.
C22_Witness_WrittenWithCamera ==
    /\ pc = "written"
    /\ DOMAIN scene_data.data_cameras # {}
    /\ Cardinality(DOMAIN scene_data.templates) >= 5
    /\ scene_data.templates_users >= 5

(***************************************************************************)
(* More claims about the UID registry (checked under SpecUID).             *)
(***************************************************************************)
\* The call recorded by the step is the first one for its key.
NewKeyCall == call'.valid /\ call'.key \notin DOMAIN keys_to_uids
IntInRange(key) == key.kind = "int" /\ 0 <= key.i /\ key.i < UID_CEILING

\* C23: a first call for an int key k of 0 .. UID_CEILING-1 returns k if no
\* key holds UID k, and returns something else only if one does.
C23_IntKeyIsItsOwnUid ==
    [][(NewKeyCall /\ IntInRange(call'.key)) =>
          /\ ~call'.raised
          /\ (call'.uid = call'.key.i) <=> (call'.key.i \notin DOMAIN uids_to_keys)]_vars

\* An int key was given another UID than itself while another int key
\* holds its own value.
C23_Witness_TakenAndFree ==
    /\ call.valid /\ ~call.known /\ ~call.raised
    /\ IntInRange(call.key)
    /\ call.uid # call.key.i
    /\ \E k \in Assigned : k # call.key /\ IntInRange(k) /\ keys_to_uids[k] = k.i

\* The values strictly between a and b, whichever is larger.
Between(a, b) == IF a < b THEN (a + 1)..(b - 1) ELSE (b + 1)..(a - 1)

\* C24: when the candidate c of a new key is taken, the UID returned is
\* free, lies above c if c is below the midpoint and below c otherwise,
\* and every value between c and it is taken.
C24_ProbeNearestInDirection ==
    [][(NewKeyCall /\ Candidate(hashseed, call'.key) \in DOMAIN uids_to_keys) =>
          /\ ~call'.raised
          /\ call'.uid \notin DOMAIN uids_to_keys
          /\ IF Candidate(hashseed, call'.key) < UID_MIDPOINT
             THEN call'.uid > Candidate(hashseed, call'.key)
             ELSE call'.uid < Candidate(hashseed, call'.key)
          /\ Between(Candidate(hashseed, call'.key), call'.uid) \subseteq DOMAIN uids_to_keys]_vars

\* A probe downward from a candidate at or above the midpoint that passed
\* over a taken value, in a registry that also saw a probe upward.
C24_Witness_DownwardOverTaken ==
    /\ call.valid /\ ~call.known /\ ~call.raised
    /\ Candidate(hashseed, call.key) >= UID_MIDPOINT
    /\ call.uid <= Candidate(hashseed, call.key) - 2
    /\ \E k \in Assigned :
           /\ Candidate(hashseed, k) < UID_MIDPOINT
           /\ keys_to_uids[k] > Candidate(hashseed, k)

\* The two tables map each other back.
MutualInverses(k2u, u2k) ==
    /\ \A k \in DOMAIN k2u : k2u[k] \in DOMAIN u2k /\ u2k[k2u[k]] = k
    /\ \A u \in DOMAIN u2k : u2k[u] \in DOMAIN k2u /\ k2u[u2k[u]] = u
    /\ Cardinality(DOMAIN k2u) = Cardinality(DOMAIN u2k)

\* C25: after any calls the tables are mutual inverses of equal size, a
\* look-up by the UID of an assigned key gives the key, a look-up by a UID
\* no key holds gives None, and every key ever assigned still holds the UID
\* its first call returned.
C25_TablesInverse ==
    /\ MutualInverses(keys_to_uids, uids_to_keys)
    /\ \A k \in Assigned :
           get_key_from_fbxuid(Registry(keys_to_uids, uids_to_keys), keys_to_uids[k])
               = [found |-> TRUE, key |-> k]
    /\ \A u \in (-2)..(UID_CEILING + 1) :
           (\A k \in Assigned : keys_to_uids[k] # u) =>
               get_key_from_fbxuid(Registry(keys_to_uids, uids_to_keys), u) = NotFound
    /\ keys_to_uids = first_uid

\* Tables of four entries, two of whose keys have the same candidate.
C25_Witness_FourEntries ==
    /\ Cardinality(Assigned) >= 4
    /\ \E k1 \in Assigned : \E k2 \in Assigned :
           k1 # k2 /\ Candidate(hashseed, k1) = Candidate(hashseed, k2)
    /\ call.valid /\ call.known

\* C26: once the Objects pass has run, no two data blocks under Objects
\* carry the same UID, and none carries the UID of the document.
C26_BlockUidsDistinct ==
    AfterObjects =>
        /\ \A i \in 1..Len(DataBlocks) : \A j \in 1..Len(DataBlocks) :
               i # j => BlockUid(DataBlocks[i]) # BlockUid(DataBlocks[j])
        /\ \A i \in 1..Len(DataBlocks) :
               BlockUid(DataBlocks[i]) # UidOf(StrKey(S_FBX_Document \o scene.name))

\* The UIDs of the data blocks under Objects.
BlockUids == {BlockUid(DataBlocks[i]) : i \in 1..Len(DataBlocks)}
\* The UIDs at the ends of the edges of a tree.
EdgeEnds(r) ==
    {EdgeSrc(Child(r, "Connections").elems[i]) : i \in 1..Len(Child(r, "Connections").elems)}
    \cup {EdgeDst(Child(r, "Connections").elems[i]) : i \in 1..Len(Child(r, "Connections").elems)}

\* C27: the Connections pass writes only edges whose source is the UID of a
\* data block under Objects and whose destination is such a UID or 0, and
\* no end of an edge is a UID the registry got during that pass.
C27_EdgesReferToBlocks ==
    [][(pc = "objects" /\ pc' = "connections") =>
          /\ \A i \in 1..Len(Child(root', "Connections").elems) :
                 /\ EdgeSrc(Child(root', "Connections").elems[i]) \in BlockUids
                 /\ EdgeDst(Child(root', "Connections").elems[i]) \in BlockUids \cup {0}
          /\ EdgeEnds(root') \cap DOMAIN uids_to_keys' \subseteq DOMAIN uids_to_keys]_vars

\* The "P" element a plain set appended last.
PlainP == p_out.plain.elems[Len(p_out.plain.elems)]

\* C28 (checked under SpecProps): a plain set appends one "P" element after
\* the earlier children, which stay as they were; its properties are the
\* name, the three type tags of the kind and one value per setter of the
\* kind, 4, 5 or 7 properties in all.
C28_OnePElementInFull ==
    p_out.plain.called =>
        /\ ~p_out.plain.raised
        /\ Len(p_out.plain.elems) = Len(p_in.elems) + 1
        /\ SubSeq(p_out.plain.elems, 1, Len(p_in.elems)) = p_in.elems
        /\ PlainP.name = "P"
        /\ Len(PlainP.props) = 4 + Arity(p_in.ptype_name)
        /\ Len(PlainP.props) \in {4, 5, 7}
        /\ PlainP.props[1] = Prop("add_string", Bytes(p_in.name))
        /\ \A i \in 1..3 :
               PlainP.props[1 + i] =
                   Prop("add_string", Bytes(FBX_PROPERTIES_DEFINITIONS[p_in.ptype_name][i]))

(***************************************************************************)
(* SpecMesh: fbx_data_mesh_elements up to the polygon indices (lines       *)
(* 783-806) on one mesh.  A mesh is the vertex index of each loop and the   *)
(* number of loops of each polygon; the polygons cover the loops in order. *)
(* Vertex coordinates are not modelled.                                    *)
(***************************************************************************)
\* Meshes of 0..MaxPolys polygons are explored.
MaxPolys == 2
PolygonSizes == {3, 4}
VertexPool == {0, 2}

RECURSIVE SumSizes(_)
SumSizes(sizes) == IF sizes = <<>> THEN 0 ELSE Head(sizes) + SumSizes(Tail(sizes))

\* polygon.loop_start of each polygon (0-based).
LoopStarts(sizes) == [k \in 1..Len(sizes) |-> SumSizes(SubSeq(sizes, 1, k - 1))]

Meshes ==
    UNION {{[vertex_index |-> vi, loop_total |-> sizes] :
               vi \in [1..SumSizes(sizes) -> VertexPool]} :
           sizes \in UNION {[1..n -> PolygonSizes] : n \in 0..MaxPolys}}

\* v ^ -1 on a signed integer.
Complement(v) == -v - 1

\* The position (1-based) of Python index i in a sequence of n items.
PyIndex(n, i) == IF i < 0 THEN n + i + 1 ELSE i + 1

\* Lines 802-803: for ls in t_ls: t_vi[ls - 1] ^= -1
RECURSIVE MarkPolygonEnds(_, _)
MarkPolygonEnds(t_vi, t_ls) ==
    IF t_ls = <<>> THEN t_vi
    ELSE MarkPolygonEnds([t_vi EXCEPT ![PyIndex(Len(t_vi), Head(t_ls) - 1)] = Complement(@)],
                         Tail(t_ls))

\* The children of the Geometry element when the writer has got past the
\* polygon indices, or when it raised: lines 791 and 798 read
\* data_types.ARRAY_FLOAT64 and data_types.ARRAY_INT32.
MeshGeometry(me) ==
    IF "ARRAY_FLOAT64" \notin data_types
    THEN Failed(<<elem_data_single_int32("GeometryVersion", 124)>>)
    ELSE IF "ARRAY_INT32" \notin data_types
    THEN Failed(<<elem_data_single_int32("GeometryVersion", 124),
                  FBXElem("Vertices", <<Prop("add_float64_array", Tup(<<>>))>>, <<>>)>>)
    ELSE Done(<<elem_data_single_int32("GeometryVersion", 124),
                FBXElem("Vertices", <<Prop("add_float64_array", Tup(<<>>))>>, <<>>),
                FBXElem("PolygonVertexIndex",
                        <<Prop("add_int32_array",
                               Tup(MarkPolygonEnds(me.vertex_index, LoopStarts(me.loop_total))))>>,
                        <<>>)>>)

InitMesh ==
    /\ IdleUID
    /\ IdleExport
    /\ p_in \in Meshes
    /\ p_out = NotCalled

MeshElements ==
    /\ ~p_out.called
    /\ p_out' = Called(MeshGeometry(p_in))
    /\ UNCHANGED <<hashseed, keys_to_uids, uids_to_keys, call, first_uid,
                   p_in, scene, pc, scene_data, root>>

NextMesh == MeshElements

SpecMesh == InitMesh /\ [][NextMesh]_vars

\* The loops (1-based) that end a polygon.
PolygonEnds(sizes) == {SumSizes(SubSeq(sizes, 1, k)) : k \in 1..Len(sizes)}

\* The arrays written under the name PolygonVertexIndex.
WrittenIndexArrays ==
    {p_out.elems[i].props[1].val.items :
        i \in {j \in 1..Len(p_out.elems) : p_out.elems[j].name = "PolygonVertexIndex"}}

\* C29 (checked under SpecMesh): the writer gets past the polygon indices
\* and writes one PolygonVertexIndex array, with one entry per loop: the
\* complement of the loop's vertex index, a negative number, if the loop is
\* the last of its polygon, and the vertex index itself otherwise.
C29_PolygonEndsComplemented ==
    p_out.called =>
        /\ ~p_out.raised
        /\ Cardinality(WrittenIndexArrays) = 1
        /\ \A arr \in WrittenIndexArrays :
               /\ Len(arr) = Len(p_in.vertex_index)
               /\ \A i \in 1..Len(arr) :
                      IF i \in PolygonEnds(p_in.loop_total)
                      THEN arr[i] = Complement(p_in.vertex_index[i]) /\ arr[i] < 0
                      ELSE arr[i] = p_in.vertex_index[i] /\ arr[i] >= 0

(***************************************************************************)
(* SpecHeader: the creation time fbx_header_elements writes (lines         *)
(* 1336-1361) for one datetime.  Strings are sequences of character codes. *)
(***************************************************************************)
\* Values of datetime.microsecond, which ranges over 0 .. 999999.
MicrosecondPool == {0, 1, 2, 999, 1000, 500000, 999999}

Times ==
    [year : {2013}, month : {1, 12}, day : {1}, hour : {0, 23}, minute : {0, 59},
     second : {0, 59}, microsecond : MicrosecondPool]

\* The decimal digits of a natural number, as character codes.
RECURSIVE Digits(_)
Digits(n) == IF n < 10 THEN <<48 + n>> ELSE Digits(n \div 10) \o <<48 + (n % 10)>>

\* "{:0w}".format(n): zeros are added in front up to w characters; nothing
\* is cut off.
RECURSIVE ZeroPad(_, _)
ZeroPad(s, width) == IF Len(s) < width THEN ZeroPad(<<48>> \o s, width) ELSE s
FormatInt(n, width) == ZeroPad(Digits(n), width)

\* Lines 1357-1361: "{:04}-{:02}-{:02} {:02}:{:02}:{:02}:{:03}".format(...)
CreationTimeString(time) ==
    FormatInt(time.year, 4) \o <<45>> \o FormatInt(time.month, 2) \o <<45>> \o
    FormatInt(time.day, 2) \o <<32>> \o FormatInt(time.hour, 2) \o <<58>> \o
    FormatInt(time.minute, 2) \o <<58>> \o FormatInt(time.second, 2) \o <<58>> \o
    FormatInt(time.microsecond * 1000, 3)

\* Lines 1338-1346 and 1357-1361: the CreationTimeStamp element and the
\* CreationTime element.
fbx_header_elements(time) ==
    Done(<<FBXElem("CreationTimeStamp", <<>>,
                   <<elem_data_single_int32("Version", 1000),
                     elem_data_single_int32("Year", time.year),
                     elem_data_single_int32("Month", time.month),
                     elem_data_single_int32("Day", time.day),
                     elem_data_single_int32("Hour", time.hour),
                     elem_data_single_int32("Minute", time.minute),
                     elem_data_single_int32("Second", time.second),
                     elem_data_single_int32("Millisecond", time.microsecond * 1000)>>),
           FBXElem("CreationTime",
                   <<Prop("add_string_unicode", Str(CreationTimeString(time)))>>, <<>>)>>)

InitHeader ==
    /\ IdleUID
    /\ IdleExport
    /\ p_in \in Times
    /\ p_out = NotCalled

HeaderElements ==
    /\ ~p_out.called
    /\ p_out' = Called(fbx_header_elements(p_in))
    /\ UNCHANGED <<hashseed, keys_to_uids, uids_to_keys, call, first_uid,
                   p_in, scene, pc, scene_data, root>>

NextHeader == HeaderElements

SpecHeader == InitHeader /\ [][NextHeader]_vars

\* The number a sequence of digit codes writes.
RECURSIVE ParseInt(_)
ParseInt(s) ==
    IF s = <<>> THEN 0 ELSE 10 * ParseInt(SubSeq(s, 1, Len(s) - 1)) + (s[Len(s)] - 48)

\* What follows the last ":" of a string.
RECURSIVE AfterLastColon(_)
AfterLastColon(s) ==
    IF s = <<>> \/ s[Len(s)] = 58 THEN <<>>
    ELSE Append(AfterLastColon(SubSeq(s, 1, Len(s) - 1)), s[Len(s)])

\* C30 (checked under SpecHeader): the Millisecond field under
\* CreationTimeStamp and the millisecond part of the CreationTime string
\* lie in 0 .. 999.
C30_MillisecondInRange ==
    p_out.called =>
        /\ Child(p_out.elems[1], "Millisecond").props[1].val.n \in 0..999
        /\ ParseInt(AfterLastColon(p_out.elems[2].props[1].val.items)) \in 0..999

====
